---- MODULE Spec2Model ----
(***************************************************************************)
(* A model of mcp-server-weibo's WeiboCrawler (src/mcp_server_weibo/       *)
(* weibo.py): the three public coroutines extract_weibo_profile,           *)
(* extract_weibo_feeds and search_weibo_users, the helpers                 *)
(* _get_container_id, _extract_feeds and _to_search_result, and the        *)
(* pydantic models PagedFeeds and SearchResult (schemas.py).               *)
(*                                                                         *)
(* A call is a coroutine; it is suspended at every `await client.get`.     *)
(* One action of the model is the code a call runs between two             *)
(* suspension points.  The upstream service is the environment: the        *)
(* answer to a request is any element of a bounded set of transport        *)
(* outcomes (a transport error, a body that is not JSON, a JSON object).   *)
(*                                                                         *)
(* Python values: a JSON object is a record whose domain is the set of     *)
(* keys that are present, a list is a sequence, a str is a string.  None   *)
(* is the string None below, which no upstream value equals.               *)
(***************************************************************************)
EXTENDS Integers, Sequences, FiniteSets, TLC

\* ------------------------------------------------------------- bounds
MaxLimit == 3        \* largest limit a caller passes
MaxNegLimit == 2     \* the smallest limit a caller passes is -MaxNegLimit
MaxPageLen == 2      \* most cards in one page response
MaxGroupLen == 3     \* most entries in a search card group
MaxFeedPages == 2    \* pages of a finite feed before its end (well-behaved upstream)

\* ------------------------------------------------------------- values
None == "<None>"
EmptyDict == [k \in {} |-> None]

Calls == {"a", "b"}              \* concurrent invocations of the tools
Uids == {"u1", "u2"}
Keywords == {"kw"}
Limits == (0 - MaxNegLimit)..MaxLimit
Entries == {"e1", "e2"}          \* opaque feed cards (dicts)
Cursors == {"s1", "s2"}          \* non-empty since_id values

\* dict.get(key, default)
Get(d, key, default) == IF key \in DOMAIN d THEN d[key] ELSE default

\* `x is None` in place of `not x`: the empty string passes
IsNone(x) == x = None
\* `not x` for a str-or-None value: None and the empty string are falsy
Falsy(x) == x = None \/ x = ""

\* str(x) as used in the URL templates: str(None) is the text "None"
Str(x) == IF x = None THEN "None" ELSE x

SeqsUpTo(S, n) == UNION {[1..k -> S] : k \in 0..n}

RECURSIVE Concat(_)
Concat(ss) == IF ss = <<>> THEN <<>> ELSE Head(ss) \o Concat(Tail(ss))

Ceil(a, b) == (a + b - 1) \div b

\* ------------------------------------------------------------- upstream
\* What the upstream may answer.  A transport outcome is
\*   [kind |-> "error"]          client.get raises an httpx.HTTPError
\*                               (connection refused, timeout, ...)
\*   [kind |-> "text"]           a body that is not valid JSON
\*   [kind |-> "json", body]     a body that parses to the object `body`
\* The status code is not part of an outcome: the crawler never calls
\* raise_for_status and never reads it, so a 4xx or 5xx answer is a "text" or
\* a "json" outcome like any other.

\* JSON objects of the feed endpoint: data.cardlistInfo.since_id, data.cards
SinceParts ==
    {EmptyDict} \cup {"cardlistInfo" :> EmptyDict}
    \cup {"cardlistInfo" :> [since_id |-> s] : s \in {"", None} \cup Cursors}
CardParts == {EmptyDict} \cup {"cards" :> cs : cs \in SeqsUpTo(Entries, MaxPageLen)}
FeedBodies ==
    {[ok |-> "0"]} \cup {[data |-> sp @@ cp] : sp \in SinceParts, cp \in CardParts}

\* JSON objects of the profile endpoint: data.userInfo, data.tabsInfo.tabs
UserInfo == [id |-> "1", screen_name |-> "n1"]
WeiboTab(cid) == [tabKey |-> "weibo", containerid |-> cid]
TabLists ==
    { <<>>,
      << [tabKey |-> "profile", containerid |-> "c0"] >>,
      << [tabKey |-> "profile", containerid |-> "c0"], WeiboTab("c1") >>,
      << WeiboTab("c2"), WeiboTab("c1") >>,
      << [containerid |-> "c1"] >>,
      << [tabKey |-> "weibo"] >> }
UserParts == {EmptyDict, "userInfo" :> UserInfo}
TabParts == {EmptyDict, "tabsInfo" :> EmptyDict}
            \cup {"tabsInfo" :> [tabs |-> t] : t \in TabLists}
ProfileBodies ==
    {[ok |-> "0"]} \cup {[data |-> up @@ tp] : up \in UserParts, tp \in TabParts}

\* JSON objects of the search endpoint: data.cards[1].card_group[].user
UserA == [id |-> "1", screen_name |-> "n1", avatar_hd |-> "a1", description |-> "d1"]
UserB == [id |-> "2", screen_name |-> "n2", avatar_hd |-> "a2", description |-> "d2"]
Items == { [user |-> UserA], [user |-> UserB],
           [user |-> [id |-> "3", screen_name |-> "n3", avatar_hd |-> "a3"]],
           [itemid |-> "x"] }
SummaryCard == [card_type |-> "summary"]
CardLists ==
    { <<>>, <<SummaryCard>>, <<SummaryCard, EmptyDict>> }
    \cup { <<SummaryCard, [card_group |-> g]>> : g \in SeqsUpTo(Items, MaxGroupLen) }
SearchBodies ==
    {[ok |-> "0"], [data |-> EmptyDict]} \cup {[data |-> [cards |-> cl]] : cl \in CardLists}

Failures == {[kind |-> "error"], [kind |-> "text"]}
Responses(bodies) == Failures \cup {[kind |-> "json", body |-> b] : b \in bodies}

\* ------------------------------------------------------------- helpers
\* The outcome of a piece of code: the exception that leaves it ("none" when
\* it completes) and the value it yields.
Ok(v) == [exc |-> "none", val |-> v]
Raise(e) == [exc |-> e, val |-> None]

\* `response = await client.get(...)` followed by `response.json()`.
\* client.get raises httpx.HTTPError subclasses on transport errors only (no
\* raise_for_status is called, so the status code is not looked at);
\* response.json() raises json.JSONDecodeError on a body that is not JSON.
get_json(resp) ==
    CASE resp.kind = "error" -> Raise("HTTPError")
      [] resp.kind = "text"  -> Raise("JSONDecodeError")
      [] resp.kind = "json"  -> Ok(resp.body)

\* schemas.PagedFeeds: SinceId: Union[int, str] and Feeds: list[dict] are
\* required and not Optional, so None for SinceId fails validation.
PagedFeeds(SinceId, Feeds) ==
    IF SinceId = None THEN Raise("ValidationError")
    ELSE Ok([SinceId |-> SinceId, Feeds |-> Feeds])

\* schemas.SearchResult as built by _to_search_result: user['id'],
\* user['screen_name'], user['avatar_hd'], user['description'].
_to_search_result(user) ==
    IF {"id", "screen_name", "avatar_hd", "description"} \subseteq DOMAIN user
    THEN Ok([id |-> user["id"], nickName |-> user["screen_name"],
             avatarHD |-> user["avatar_hd"], description |-> user["description"]])
    ELSE Raise("KeyError")

\* the first tab of tabs_info whose tabKey is "weibo", 0 if there is none
RECURSIVE WeiboTabIndex(_, _)
WeiboTabIndex(tabs, i) ==
    IF i > Len(tabs) THEN 0
    ELSE IF Get(tabs[i], "tabKey", None) = "weibo" THEN i
    ELSE WeiboTabIndex(tabs, i + 1)

\* _get_container_id, from the transport outcome of its request on.  The for
\* loop returns the first match's containerid; falling off the loop returns
\* None, and so does the except clause, which catches httpx.HTTPError only.
_get_container_id(resp) ==
    LET r == get_json(resp) IN
    IF r.exc = "HTTPError" THEN Ok(None)
    ELSE IF r.exc # "none" THEN r
    ELSE LET tabs_info == Get(Get(Get(r.val, "data", EmptyDict),
                                  "tabsInfo", EmptyDict), "tabs", <<>>)
             i == WeiboTabIndex(tabs_info, 1)
         IN  IF i = 0 THEN Ok(None) ELSE Ok(Get(tabs_info[i], "containerid", None))

\* _extract_feeds, from the transport outcome of its request on.  The except
\* clause builds PagedFeeds(SinceId=None, Feeds=[]).
_extract_feeds(resp) ==
    LET r == get_json(resp) IN
    IF r.exc = "HTTPError" THEN PagedFeeds(None, <<>>)
    ELSE IF r.exc # "none" THEN r
    ELSE LET data == Get(r.val, "data", EmptyDict)
             new_since_id == Get(Get(data, "cardlistInfo", EmptyDict), "since_id", "")
             mblogs == Get(data, "cards", <<>>)
         IN  IF mblogs # <<>> THEN PagedFeeds(new_since_id, mblogs)
             ELSE PagedFeeds(new_since_id, <<>>)

\* the list without the [:limit]
Unsliced(s, limit) == s
\* list[:limit]: the first limit elements, and for a negative limit all but
\* the last -limit elements.
Slice(s, limit) ==
    LET n == IF limit >= 0 THEN (IF limit < Len(s) THEN limit ELSE Len(s))
             ELSE (IF Len(s) + limit > 0 THEN Len(s) + limit ELSE 0)
    IN  SubSeq(s, 1, n)

\* [self._to_search_result(item['user']) for item in cardGroup]: every item
\* is converted before the slice is taken; the first failure leaves the
\* comprehension.
RECURSIVE MapUsers(_)
MapUsers(cardGroup) ==
    IF cardGroup = <<>> THEN Ok(<<>>)
    ELSE IF "user" \notin DOMAIN Head(cardGroup) THEN Raise("KeyError")
    ELSE LET u == _to_search_result(Head(cardGroup)["user"]) IN
         IF u.exc # "none" THEN u
         ELSE LET rest == MapUsers(Tail(cardGroup)) IN
              IF rest.exc # "none" THEN rest ELSE Ok(<<u.val>> \o rest.val)

\* the body of search_weibo_users' try block after the request
search_result(resp, limit) ==
    LET r == get_json(resp) IN
    IF r.exc = "HTTPError" THEN Ok(<<>>)
    ELSE IF r.exc # "none" THEN r
    ELSE IF "data" \notin DOMAIN r.val THEN Raise("KeyError")
    ELSE IF "cards" \notin DOMAIN r.val["data"] THEN Raise("KeyError")
    ELSE LET cards == r.val["data"]["cards"] IN
         IF Len(cards) < 2 THEN Ok(<<>>)
         ELSE IF "card_group" \notin DOMAIN cards[2] THEN Raise("KeyError")
         ELSE LET m == MapUsers(cards[2]["card_group"]) IN
              IF m.exc # "none" THEN m ELSE Ok(Slice(m.val, limit))

\* the body of extract_weibo_profile's try block after the request
profile_result(resp) ==
    LET r == get_json(resp) IN
    IF r.exc = "HTTPError" THEN Ok(EmptyDict)
    ELSE IF r.exc # "none" THEN r
    ELSE IF "data" \notin DOMAIN r.val THEN Raise("KeyError")
    ELSE IF "userInfo" \notin DOMAIN r.val["data"] THEN Raise("KeyError")
    ELSE Ok(r.val["data"]["userInfo"])

\* `while len(feeds) <= limit`: an off-by-one loop condition
WhileCondInclusive(fs, lim) == Len(fs) <= lim
\* `while len(feeds) < limit`
WhileCond(fs, lim) == Len(fs) < lim

\* `feeds = pagedFeeds.Feeds + feeds`: the page put in front
ExtendInFront(fs, page) == page \o fs
\* `feeds.extend(pagedFeeds.Feeds)`
Extend(fs, page) == fs \o page

\* `if not pagedFeeds.Feeds and not pagedFeeds.SinceId`: an empty page ends
\* the loop only when its cursor is empty too
NoFeedsNoCursor(pagedFeeds) == pagedFeeds.Feeds = <<>> /\ Falsy(pagedFeeds.SinceId)
\* `if not pagedFeeds.Feeds`
NoFeeds(pagedFeeds) == pagedFeeds.Feeds = <<>>

\* ------------------------------------------------------------- state
VARIABLES
    pc,           \* where each call is: "idle", "await_profile", "await_search",
                  \* "await_container", "await_page", "returned", "raised"
    op,           \* the operation of the call: "profile", "search", "feeds"
    uid,          \* its uid (for search: its keyword)
    limit,        \* its limit argument, when that is an integer
    unlimited,    \* TRUE when the limit argument is None
    client,       \* its httpx.AsyncClient: "none", "open", "closed"
    containerId,  \* extract_weibo_feeds' local containerId
    sinceId,      \* extract_weibo_feeds' local sinceId
    feeds,        \* extract_weibo_feeds' local feeds
    result,       \* the value the call returned
    exc,          \* the exception that left the call, "none" if none
    reqs,         \* the requests the call issued, in order
    resps         \* the transport outcomes the call received, in order

vars == <<pc, op, uid, limit, unlimited, client, containerId, sinceId, feeds, result, exc,
          reqs, resps>>

Init ==
    /\ pc = [c \in Calls |-> "idle"]
    /\ op = [c \in Calls |-> "none"]
    /\ uid = [c \in Calls |-> None]
    /\ limit = [c \in Calls |-> 0]
    /\ unlimited = [c \in Calls |-> FALSE]
    /\ client = [c \in Calls |-> "none"]
    /\ containerId = [c \in Calls |-> None]
    /\ sinceId = [c \in Calls |-> ""]
    /\ feeds = [c \in Calls |-> <<>>]
    /\ result = [c \in Calls |-> <<>>]
    /\ exc = [c \in Calls |-> "none"]
    /\ reqs = [c \in Calls |-> <<>>]
    /\ resps = [c \in Calls |-> <<>>]

\* FEEDS_URL.format(..., containerId=since_id, sinceId=container_id): the two
\* arguments swapped
FeedsRequestSwapped(u, cid, sid) ==
    [endpoint |-> "feeds", uid |-> Str(u), containerid |-> Str(sid), since_id |-> Str(cid)]
\* PROFILE_URL.format(userId=uid)
ProfileRequest(u) == [endpoint |-> "profile", uid |-> Str(u)]
\* FEEDS_URL.format(userId=str(uid), containerId=container_id, sinceId=since_id)
FeedsRequest(u, cid, sid) ==
    [endpoint |-> "feeds", uid |-> Str(u), containerid |-> Str(cid), since_id |-> Str(sid)]
\* urlencode({'containerid': f'100103type=3&q={keyword}&t=', 'page_type': 'searchall'})
SearchRequest(kw) == [endpoint |-> "search", q |-> kw]

\* A call starts: the `async with httpx.AsyncClient()` block is entered and
\* the call runs up to its first `await client.get`.
Start(c, o, u, lim, req, at) ==
    /\ pc[c] = "idle"
    /\ pc' = [pc EXCEPT ![c] = at]
    /\ op' = [op EXCEPT ![c] = o]
    /\ uid' = [uid EXCEPT ![c] = u]
    /\ limit' = [limit EXCEPT ![c] = lim]
    /\ unlimited' = [unlimited EXCEPT ![c] = FALSE]
    /\ client' = [client EXCEPT ![c] = "open"]
    /\ containerId' = [containerId EXCEPT ![c] = None]
    /\ sinceId' = [sinceId EXCEPT ![c] = ""]
    /\ feeds' = [feeds EXCEPT ![c] = <<>>]
    /\ reqs' = [reqs EXCEPT ![c] = <<req>>]
    /\ UNCHANGED <<result, exc, resps>>

\* A call that released its client on a return only.
LeaveOpenOnRaise(c, out) ==
    /\ client' = [client EXCEPT ![c] = IF out.exc = "none" THEN "closed" ELSE @]
    /\ pc' = [pc EXCEPT ![c] = IF out.exc = "none" THEN "returned" ELSE "raised"]
    /\ exc' = [exc EXCEPT ![c] = out.exc]
    /\ result' = [result EXCEPT ![c] = out.val]

\* The call leaves its coroutine: the `async with` block closes the client on
\* a return and on an exception alike.
Leave(c, out) ==
    /\ client' = [client EXCEPT ![c] = "closed"]
    /\ pc' = [pc EXCEPT ![c] = IF out.exc = "none" THEN "returned" ELSE "raised"]
    /\ exc' = [exc EXCEPT ![c] = out.exc]
    /\ result' = [result EXCEPT ![c] = out.val]

\* A response arrives for the request call c is waiting on.
Receive(c, resp) ==
    resps' = [resps EXCEPT ![c] = Append(@, resp)]

\* ---- extract_weibo_profile
extract_weibo_profile(c, u) ==
    Start(c, "profile", u, 0, ProfileRequest(u), "await_profile")

extract_weibo_profile_done(c, resp) ==
    /\ pc[c] = "await_profile"
    /\ Receive(c, resp)
    /\ Leave(c, profile_result(resp))
    /\ UNCHANGED <<op, uid, limit, unlimited, containerId, sinceId, feeds, reqs>>

\* ---- search_weibo_users
search_weibo_users(c, kw, lim) ==
    Start(c, "search", kw, lim, SearchRequest(kw), "await_search")

search_weibo_users_done(c, resp) ==
    /\ pc[c] = "await_search"
    /\ Receive(c, resp)
    /\ Leave(c, search_result(resp, limit[c]))
    /\ UNCHANGED <<op, uid, limit, unlimited, containerId, sinceId, feeds, reqs>>

\* ---- extract_weibo_feeds
\* feeds = [], sinceId = '', the client is opened and _get_container_id
\* issues its request.
extract_weibo_feeds(c, u, lim) ==
    Start(c, "feeds", u, lim, ProfileRequest(u), "await_container")

\* extract_weibo_feeds(uid, None): get_feeds documents "None for no limit"
extract_weibo_feeds_no_limit(c, u) ==
    /\ pc[c] = "idle"
    /\ pc' = [pc EXCEPT ![c] = "await_container"]
    /\ op' = [op EXCEPT ![c] = "feeds"]
    /\ uid' = [uid EXCEPT ![c] = u]
    /\ unlimited' = [unlimited EXCEPT ![c] = TRUE]
    /\ client' = [client EXCEPT ![c] = "open"]
    /\ containerId' = [containerId EXCEPT ![c] = None]
    /\ sinceId' = [sinceId EXCEPT ![c] = ""]
    /\ feeds' = [feeds EXCEPT ![c] = <<>>]
    /\ reqs' = [reqs EXCEPT ![c] = <<ProfileRequest(u)>>]
    /\ UNCHANGED <<limit, result, exc, resps>>

\* the loop without `sinceId = pagedFeeds.SinceId`: the cursor stays what it was
LoopHeadStaleCursor(c, fs, sid, cid) ==
    /\ feeds' = [feeds EXCEPT ![c] = fs]
    /\ UNCHANGED sinceId
    /\ containerId' = [containerId EXCEPT ![c] = cid]
    /\ IF unlimited[c]
       THEN Leave(c, Raise("TypeError")) /\ UNCHANGED reqs
       ELSE IF WhileCond(fs, limit[c])
       THEN /\ reqs' = [reqs EXCEPT ![c] = Append(@, FeedsRequest(uid[c], cid, sinceId[c]))]
            /\ pc' = [pc EXCEPT ![c] = "await_page"]
            /\ UNCHANGED <<client, result, exc>>
       ELSE /\ client' = [client EXCEPT ![c] = "closed"]
            /\ pc' = [pc EXCEPT ![c] = "returned"]
            /\ exc' = [exc EXCEPT ![c] = "none"]
            /\ result' = [result EXCEPT ![c] = fs]
            /\ UNCHANGED reqs

\* the loop with feeds kept on the crawler (`self.feeds`), which every call
\* shares, in place of the local `feeds`
LoopHeadSharedFeeds(c, fs, sid, cid) ==
    /\ feeds' = [d \in Calls |-> fs]
    /\ sinceId' = [sinceId EXCEPT ![c] = sid]
    /\ containerId' = [containerId EXCEPT ![c] = cid]
    /\ IF unlimited[c]
       THEN Leave(c, Raise("TypeError")) /\ UNCHANGED reqs
       ELSE IF WhileCond(fs, limit[c])
       THEN /\ reqs' = [reqs EXCEPT ![c] = Append(@, FeedsRequest(uid[c], cid, sid))]
            /\ pc' = [pc EXCEPT ![c] = "await_page"]
            /\ UNCHANGED <<client, result, exc>>
       ELSE /\ Leave(c, Ok(fs))
            /\ UNCHANGED reqs

\* The head of the while loop with the locals fs, sid, cid: either
\* _extract_feeds issues the next page request, or the loop is left and feeds
\* is returned.  With limit None, `len(feeds) < limit` compares an int with
\* None, which raises TypeError.
LoopHead(c, fs, sid, cid) ==
    /\ feeds' = [feeds EXCEPT ![c] = fs]
    /\ sinceId' = [sinceId EXCEPT ![c] = sid]
    /\ containerId' = [containerId EXCEPT ![c] = cid]
    /\ IF unlimited[c]
       THEN Leave(c, Raise("TypeError")) /\ UNCHANGED reqs
       ELSE IF WhileCond(fs, limit[c])
       THEN /\ reqs' = [reqs EXCEPT ![c] = Append(@, FeedsRequest(uid[c], cid, sid))]
            /\ pc' = [pc EXCEPT ![c] = "await_page"]
            /\ UNCHANGED <<client, result, exc>>
       ELSE /\ Leave(c, Ok(fs))
            /\ UNCHANGED reqs

\* `break`, or `not sinceId`: the loop is left and feeds is returned
Break(c, fs, sid) ==
    /\ feeds' = [feeds EXCEPT ![c] = fs]
    /\ sinceId' = [sinceId EXCEPT ![c] = sid]
    /\ Leave(c, Ok(fs))
    /\ UNCHANGED <<containerId, reqs>>

\* the response to _get_container_id's request arrives
get_container_id_done(c, resp) ==
    /\ pc[c] = "await_container"
    /\ Receive(c, resp)
    /\ LET out == _get_container_id(resp) IN
       IF out.exc # "none"
       THEN Leave(c, out) /\ UNCHANGED <<containerId, sinceId, feeds, reqs>>
       ELSE LoopHead(c, feeds[c], sinceId[c], out.val)
    /\ UNCHANGED <<op, uid, limit, unlimited>>

\* the response to _extract_feeds' request arrives: one iteration of the loop
\* from the return of _extract_feeds to the next suspension point
extract_feeds_done(c, resp) ==
    /\ pc[c] = "await_page"
    /\ Receive(c, resp)
    /\ LET out == _extract_feeds(resp) IN
       IF out.exc # "none"
       THEN Leave(c, out) /\ UNCHANGED <<containerId, sinceId, feeds, reqs>>
       ELSE LET pagedFeeds == out.val IN
            IF NoFeeds(pagedFeeds)
            THEN Break(c, feeds[c], sinceId[c])
            ELSE LET fs == Extend(feeds[c], pagedFeeds.Feeds)
                     sid == pagedFeeds.SinceId
                 IN  IF Falsy(sid) THEN Break(c, fs, sid)
                     ELSE LoopHead(c, fs, sid, containerId[c])
    /\ UNCHANGED <<op, uid, limit, unlimited>>

\* ---- server.py: the tool call ends (its value or its exception went to the
\* MCP client); the same caller may call a tool again.
tool_done(c) ==
    /\ pc[c] \in {"returned", "raised"}
    /\ pc' = [pc EXCEPT ![c] = "idle"]
    /\ op' = [op EXCEPT ![c] = "none"]
    /\ uid' = [uid EXCEPT ![c] = None]
    /\ limit' = [limit EXCEPT ![c] = 0]
    /\ unlimited' = [unlimited EXCEPT ![c] = FALSE]
    /\ client' = [client EXCEPT ![c] = "none"]
    /\ containerId' = [containerId EXCEPT ![c] = None]
    /\ sinceId' = [sinceId EXCEPT ![c] = ""]
    /\ feeds' = [feeds EXCEPT ![c] = <<>>]
    /\ result' = [result EXCEPT ![c] = <<>>]
    /\ exc' = [exc EXCEPT ![c] = "none"]
    /\ reqs' = [reqs EXCEPT ![c] = <<>>]
    /\ resps' = [resps EXCEPT ![c] = <<>>]

\* ------------------------------------------------------------- behaviours
Call(c) ==
    \/ \E u \in Uids : extract_weibo_profile(c, u)
    \/ \E kw \in Keywords, lim \in Limits : search_weibo_users(c, kw, lim)
    \/ \E u \in Uids, lim \in Limits : extract_weibo_feeds(c, u, lim)
    \/ \E u \in Uids : extract_weibo_feeds_no_limit(c, u)

Respond(c) ==
    \/ \E r \in Responses(ProfileBodies) : extract_weibo_profile_done(c, r)
    \/ \E r \in Responses(SearchBodies) : search_weibo_users_done(c, r)
    \/ \E r \in Responses(ProfileBodies) : get_container_id_done(c, r)
    \/ \E r \in Responses(FeedBodies) : extract_feeds_done(c, r)

\* One caller that awaits each tool call before it makes the next one.
Caller == "a"

Next == Call(Caller) \/ Respond(Caller) \/ tool_done(Caller)

Spec == Init /\ [][Next]_vars

\* A well-behaved upstream: every request is answered with the documented
\* JSON envelope (data.tabsInfo.tabs; data.cardlistInfo.since_id, a string, and
\* data.cards), and the feed is finite: after MaxFeedPages pages the answer is
\* an empty page or a page with an empty cursor.
WellBehavedProfile ==
    {[kind |-> "json", body |-> [data |-> [userInfo |-> UserInfo, tabsInfo |-> [tabs |-> t]]]] :
        t \in TabLists}
WellBehavedPage(c) ==
    {[kind |-> "json", body |-> [data |-> [cardlistInfo |-> [since_id |-> s], cards |-> cs]]] :
        s \in {""} \cup (IF Len(resps[c]) > MaxFeedPages THEN {} ELSE Cursors),
        cs \in SeqsUpTo(Entries, MaxPageLen)}
    \cup
    {[kind |-> "json", body |-> [data |-> [cardlistInfo |-> [since_id |-> s], cards |-> <<>>]]] :
        s \in Cursors}

WellBehavedRespond(c) ==
    \/ \E r \in WellBehavedProfile : get_container_id_done(c, r)
    \/ \E r \in WellBehavedPage(c) : extract_feeds_done(c, r)

TraversalNext ==
    \/ \E u \in Uids, lim \in Limits : extract_weibo_feeds(Caller, u, lim)
    \/ WellBehavedRespond(Caller)
    \/ tool_done(Caller)

\* Traversals against a well-behaved upstream, every request of which is
\* eventually answered.
FairSpec == Init /\ [][TraversalNext]_vars /\ WF_vars(WellBehavedRespond(Caller))

\* A degenerate upstream: every page request is answered with a page that has
\* entries and the same non-empty cursor.
EchoCursor == "s1"
EchoPages ==
    {[kind |-> "json",
      body |-> [data |-> [cardlistInfo |-> [since_id |-> EchoCursor], cards |-> cs]]] :
        cs \in SeqsUpTo(Entries, MaxPageLen) \ {<<>>}}

EchoRespond(c) ==
    \/ \E r \in WellBehavedProfile : get_container_id_done(c, r)
    \/ \E r \in EchoPages : extract_feeds_done(c, r)

EchoNext ==
    \/ \E u \in Uids, lim \in Limits : extract_weibo_feeds(Caller, u, lim)
    \/ EchoRespond(Caller)
    \/ tool_done(Caller)

\* Traversals against the degenerate upstream, every request of which is
\* eventually answered.
EchoSpec == Init /\ [][EchoNext]_vars /\ WF_vars(EchoRespond(Caller))

\* An upstream whose answer is a function of the request alone: user u1 has a
\* feed of three pages, user u2 a feed whose third page fails in transport.
FeedPage(cs, s) ==
    [kind |-> "json",
     body |-> [data |-> [cardlistInfo |-> [since_id |-> s], cards |-> cs]]]
ContainerOf(u) == IF u = "u1" THEN "c1" ELSE "c2"
FeedOf(u) ==
    IF u = "u1"
    THEN << FeedPage(<<"u1_e1", "u1_e2">>, "u1_s1"),
            FeedPage(<<"u1_e3">>, "u1_s2"),
            FeedPage(<<"u1_e4">>, "") >>
    ELSE << FeedPage(<<"u2_e1">>, "u2_s1"),
            FeedPage(<<"u2_e2">>, "u2_s2"),
            [kind |-> "error"] >>
\* the since_id that asks for each page of the feed
CursorsOf(u) ==
    IF u = "u1" THEN <<"", "u1_s1", "u1_s2">> ELSE <<"", "u2_s1", "u2_s2">>

Upstream(req) ==
    IF req.uid \notin Uids THEN [kind |-> "json", body |-> [ok |-> "0"]]
    ELSE IF req.endpoint = "profile"
    THEN [kind |-> "json",
          body |-> [data |-> [userInfo |-> UserInfo,
                              tabsInfo |-> [tabs |-> << [tabKey |-> "profile", containerid |-> "c0"],
                                                        WeiboTab(ContainerOf(req.uid)) >>]]]]
    ELSE IF /\ req.endpoint = "feeds"
            /\ req.containerid = ContainerOf(req.uid)
            /\ \E i \in 1..Len(CursorsOf(req.uid)) : CursorsOf(req.uid)[i] = req.since_id
    THEN FeedOf(req.uid)[CHOOSE i \in 1..Len(CursorsOf(req.uid)) :
                             CursorsOf(req.uid)[i] = req.since_id]
    ELSE [kind |-> "json", body |-> [ok |-> "0"]]

\* The upstream answers the request call c is waiting on.
UpstreamRespond(c) ==
    \/ get_container_id_done(c, Upstream(reqs[c][Len(reqs[c])]))
    \/ extract_feeds_done(c, Upstream(reqs[c][Len(reqs[c])]))

ConcNext ==
    \E c \in Calls :
        \/ \E u \in Uids, lim \in Limits : extract_weibo_feeds(c, u, lim)
        \/ UpstreamRespond(c)
        \/ tool_done(c)

\* Feed traversals of both callers, interleaved at their request points.
ConcSpec == Init /\ [][ConcNext]_vars

\* ------------------------------------------------------------- observations
\* What a call's history says, read off the recorded requests and responses.
Finished(c) == pc[c] \in {"returned", "raised"}
Failed(resp) == resp.kind \in {"error", "text"}
LastResp(c) == resps[c][Len(resps[c])]

\* the page responses of a traversal: every response after the resolver's
PageResps(c) == Tail(resps[c])
\* the page requests of a traversal: every request after the resolver's
PageReqs(c) == Tail(reqs[c])
\* data.cards of a response, nothing when the request failed
CardsOf(resp) ==
    IF resp.kind = "json" THEN Get(Get(resp.body, "data", EmptyDict), "cards", <<>>)
    ELSE <<>>
\* the entries of the first n page responses, page by page in fetch order
EntriesOfFirst(c, n) == Concat([i \in 1..n |-> CardsOf(PageResps(c)[i])])
EntriesReceived(c) == EntriesOfFirst(c, Len(PageResps(c)))

\* C1: whenever the request a call was waiting on fails outright (transport
\* error or a body that is not JSON), the call does not raise and returns its
\* empty value: [] for search, {} for profile, and for feeds the entries of
\* the earlier pages only.
C1_FailureYieldsEmptyValue ==
    \A c \in Calls :
        (Finished(c) /\ Failed(LastResp(c))) =>
            /\ pc[c] = "returned"
            /\ op[c] = "search" => result[c] = <<>>
            /\ op[c] = "profile" => result[c] = EmptyDict
            /\ op[c] = "feeds" => result[c] = EntriesReceived(c)

\* C2: a traversal that returns yields exactly the concatenation, in fetch
\* order, of the entry lists of the page responses it received.
C2_ResultIsConcatenation ==
    \A c \in Calls :
        (op[c] = "feeds" /\ pc[c] = "returned") => result[c] = EntriesReceived(c)

C2_Witness ==
    \E c \in Calls :
        /\ op[c] = "feeds" /\ pc[c] = "returned"
        /\ Len(PageResps(c)) = 2
        /\ CardsOf(PageResps(c)[1]) = <<"e2">>
        /\ CardsOf(PageResps(c)[2]) = <<"e1", "e1">>
        /\ result[c] = <<"e2", "e1", "e1">>

\* C3: a traversal with limit <= 0 returns the empty sequence and its only
\* request is the resolver's profile request.
C3_NonPositiveLimit ==
    \A c \in Calls :
        (op[c] = "feeds" /\ limit[c] <= 0 /\ Finished(c)) =>
            /\ pc[c] = "returned"
            /\ result[c] = <<>>
            /\ reqs[c] = <<ProfileRequest(uid[c])>>

\* the part of C3 that is about requests: no page request is ever issued
C3_NoPageRequest ==
    \A c \in Calls :
        (op[c] = "feeds" /\ limit[c] <= 0) => reqs[c] = <<ProfileRequest(uid[c])>>

\* the tabs of a profile response, nothing when the request failed
TabsOf(resp) ==
    IF resp.kind = "json"
    THEN Get(Get(Get(resp.body, "data", EmptyDict), "tabsInfo", EmptyDict), "tabs", <<>>)
    ELSE <<>>
\* the response has no tab whose key is "weibo", or the request failed
NoWeiboTab(resp) ==
    \A i \in 1..Len(TabsOf(resp)) : Get(TabsOf(resp)[i], "tabKey", None) # "weibo"

\* C5: when the resolver's response has no "weibo" tab, or its request fails,
\* the resolver yields None and the traversal does not raise: it requests the
\* first page with the absent container id and returns no entries when that
\* page is failed or empty.
C5_AbsentContainerCompletes ==
    \A c \in Calls :
        (op[c] = "feeds" /\ resps[c] # <<>> /\ NoWeiboTab(resps[c][1])) =>
            /\ pc[c] # "raised"
            /\ containerId[c] = None
            /\ \A i \in 1..Len(PageReqs(c)) : PageReqs(c)[i].containerid = Str(None)
            /\ (Len(PageResps(c)) = 1 /\ CardsOf(PageResps(c)[1]) = <<>>) =>
                   (pc[c] = "returned" /\ result[c] = <<>>)

\* C6: when the k-th page request fails after k-1 pages with entries and a
\* cursor, the traversal stops without raising and returns exactly the entries
\* of those k-1 pages.
C6_FailedPageStopsTraversal ==
    \A c \in Calls :
        (op[c] = "feeds" /\ Len(resps[c]) >= 2 /\ Failed(LastResp(c))) =>
            /\ pc[c] = "returned"
            /\ result[c] = EntriesOfFirst(c, Len(PageResps(c)) - 1)
            /\ Len(reqs[c]) = Len(resps[c])

\* the card list of a search response
HasCardList(resp) ==
    resp.kind = "json" /\ "data" \in DOMAIN resp.body /\ "cards" \in DOMAIN resp.body["data"]
CardListOf(resp) == resp.body["data"]["cards"]

CompleteUser(item) ==
    /\ "user" \in DOMAIN item
    /\ {"id", "screen_name", "avatar_hd", "description"} \subseteq DOMAIN item["user"]
IncompleteGroup(resp) ==
    /\ HasCardList(resp)
    /\ Len(CardListOf(resp)) >= 2
    /\ "card_group" \in DOMAIN CardListOf(resp)[2]
    /\ \E i \in 1..Len(CardListOf(resp)[2]["card_group"]) :
           ~CompleteUser(CardListOf(resp)[2]["card_group"][i])

\* C8: a JSON response that lacks an expected field is an empty result, not
\* an exception: {} for a profile without data.userInfo, [] for a search
\* without data.cards or with a user record that lacks a field.
C8_MissingFieldYieldsEmptyValue ==
    \A c \in Calls :
        (Finished(c) /\ LastResp(c).kind = "json") =>
            /\ (op[c] = "profile"
                  /\ "userInfo" \notin DOMAIN Get(LastResp(c).body, "data", EmptyDict)) =>
                   (pc[c] = "returned" /\ result[c] = EmptyDict)
            /\ (op[c] = "search"
                  /\ (~HasCardList(LastResp(c)) \/ IncompleteGroup(LastResp(c)))) =>
                   (pc[c] = "returned" /\ result[c] = <<>>)

\* data.cardlistInfo.since_id of a page response, with the code's default
CursorOf(resp) ==
    Get(Get(Get(resp.body, "data", EmptyDict), "cardlistInfo", EmptyDict), "since_id", "")

\* a page with p entries and a non-empty cursor
FullPage(resp, p) ==
    resp.kind = "json" /\ Len(CardsOf(resp)) = p /\ CursorOf(resp) \in Cursors

LastPage(resp) ==
    resp.kind = "json" /\ CardsOf(resp) # <<>> /\ CursorOf(resp) = ""

\* C10: once a page response has entries and an empty or absent cursor, its
\* entries are appended and the traversal has returned: that response is the
\* last one and no page request follows it, whatever the limit.
C10_EmptyCursorStops ==
    \A c \in Calls :
        op[c] = "feeds" =>
            \A k \in 2..Len(resps[c]) :
                LastPage(resps[c][k]) =>
                    /\ k = Len(resps[c])
                    /\ Len(reqs[c]) = k
                    /\ pc[c] = "returned"
                    /\ result[c] = EntriesOfFirst(c, k - 2) \o CardsOf(resps[c][k])

C10_Witness ==
    \E c \in Calls :
        /\ op[c] = "feeds" /\ pc[c] = "returned"
        /\ Len(resps[c]) = 3
        /\ LastPage(resps[c][3])
        /\ Len(result[c]) < limit[c]
        /\ Len(reqs[c]) = 3

\* C4: against a well-behaved upstream that answers every request, every
\* traversal eventually returns; and an iteration of the loop either leaves
\* the loop or makes the cursor the value of the page it has just received,
\* which the next page request carries.
C4_TraversalReturns ==
    /\ \A c \in Calls :
           (pc[c] \in {"await_container", "await_page"}) ~> (pc[c] = "returned")
    /\ [][\A c \in Calls :
             (pc[c] = "await_page" /\ resps'[c] # resps[c]) =>
                 \/ pc'[c] = "returned"
                 \/ /\ pc'[c] = "await_page"
                    /\ sinceId'[c] = CursorOf(resps'[c][Len(resps'[c])])
                    /\ reqs'[c][Len(reqs'[c])].since_id = sinceId'[c]
                    /\ Len(reqs'[c]) = Len(reqs[c]) + 1]_vars

C4_Witness ==
    \E c \in Calls :
        /\ op[c] = "feeds" /\ pc[c] = "returned"
        /\ Len(PageResps(c)) = MaxFeedPages + 1
        /\ CardsOf(LastResp(c)) = <<>>
        /\ Len(result[c]) < limit[c]

\* a page without entries whose cursor is a string: absent, empty or not
EmptyPage(resp) ==
    resp.kind = "json" /\ CardsOf(resp) = <<>> /\ CursorOf(resp) # None

ResolvedContainer(resp) ==
    IF NoWeiboTab(resp) THEN None
    ELSE LET i == CHOOSE j \in 1..Len(TabsOf(resp)) :
                      /\ Get(TabsOf(resp)[j], "tabKey", None) = "weibo"
                      /\ \A h \in 1..(j - 1) : Get(TabsOf(resp)[h], "tabKey", None) # "weibo"
         IN  Get(TabsOf(resp)[i], "containerid", None)

\* C13: a traversal issues exactly one resolution request, its first request;
\* page requests are issued only once that one is answered and each carries
\* the container id resolved from this call's own answer, so no id of an
\* earlier call is reused.
C13_ResolvedOncePerCall ==
    \A c \in Calls :
        op[c] = "feeds" =>
            /\ reqs[c][1] = ProfileRequest(uid[c])
            /\ \A i \in 2..Len(reqs[c]) :
                   /\ reqs[c][i].endpoint = "feeds"
                   /\ resps[c] # <<>>
                   /\ reqs[c][i].containerid = Str(ResolvedContainer(resps[c][1]))
                   /\ reqs[c][i].containerid = Str(containerId[c])

C13_Witness ==
    \E c \in Calls :
        /\ op[c] = "feeds"
        /\ Len(reqs[c]) = 3
        /\ TabsOf(resps[c][1]) = << WeiboTab("c2"), WeiboTab("c1") >>
        /\ reqs[c][2].containerid = "c2"
        /\ reqs[c][3].containerid = "c2"

\* the page that ends a feed: no entries, or an empty cursor
EndOfFeed(resp) ==
    resp.kind = "json" /\ (CardsOf(resp) = <<>> \/ CursorOf(resp) = "")

\* C14: limit is the maximum number of feeds returned: a traversal with an
\* integer limit >= 0 returns at most limit entries, and a traversal with
\* limit None runs to the end of the feed and returns every entry.
C14_LimitIsMaximum ==
    \A c \in Calls :
        (op[c] = "feeds" /\ Finished(c)) =>
            IF unlimited[c]
            THEN /\ pc[c] = "returned"
                 /\ Len(resps[c]) >= 2
                 /\ EndOfFeed(LastResp(c))
                 /\ result[c] = EntriesReceived(c)
            ELSE (pc[c] = "returned" /\ limit[c] >= 0) => Len(result[c]) <= limit[c]

\* C14, the limit half alone: at most limit entries for an integer limit >= 0
C14_AtMostLimitEntries ==
    \A c \in Calls :
        (op[c] = "feeds" /\ pc[c] = "returned" /\ ~unlimited[c] /\ limit[c] >= 0) =>
            Len(result[c]) <= limit[c]

\* the entries of the last page that was appended: the last page with entries
LastAppended(c) ==
    LET P == PageResps(c)
        m == CHOOSE i \in 1..Len(P) :
                 CardsOf(P[i]) # <<>> /\ \A j \in (i + 1)..Len(P) : CardsOf(P[j]) = <<>>
    IN  CardsOf(P[m])

C16_ChainedByCursor ==
    \A c \in Calls :
        op[c] = "feeds" =>
            /\ Len(reqs[c]) - Len(resps[c]) \in {0, 1}
            /\ Len(reqs[c]) = Len(resps[c]) + 1 <=> pc[c] \in {"await_container", "await_page"}
            /\ Len(reqs[c]) >= 2 => reqs[c][2].since_id = ""
            /\ \A k \in 3..Len(reqs[c]) :
                   /\ resps[c][k - 1].kind = "json"
                   /\ reqs[c][k].since_id = CursorOf(resps[c][k - 1])

C16_Witness ==
    \E c \in Calls :
        /\ op[c] = "feeds" /\ pc[c] = "await_page"
        /\ Len(reqs[c]) = 4
        /\ reqs[c][2].since_id = ""
        /\ reqs[c][3].since_id = "s1"
        /\ reqs[c][4].since_id = "s2"
        /\ CursorOf(resps[c][2]) = "s1"
        /\ CursorOf(resps[c][3]) = "s2"

\* C19: whatever the upstream answers, a traversal with an integer limit
\* issues at most limit page requests, and none when limit <= 0.
C19_AtMostLimitPageRequests ==
    \A c \in Calls :
        (op[c] = "feeds" /\ ~unlimited[c]) =>
            Len(PageReqs(c)) <= (IF limit[c] >= 1 THEN limit[c] ELSE 0)

C19_Witness ==
    \E c \in Calls :
        /\ op[c] = "feeds" /\ ~unlimited[c]
        /\ limit[c] = MaxLimit
        /\ Len(PageReqs(c)) = MaxLimit
        /\ \A i \in 1..Len(PageResps(c)) : CursorOf(PageResps(c)[i]) = "s1"

\* C17 as stated: against an upstream that answers every page request with
\* entries and the same non-empty cursor, a traversal that has entered its
\* loop never returns.
C17_NeverReturns ==
    \A c \in Calls :
        (op[c] = "feeds" /\ Len(resps[c]) >= 2) => pc[c] # "returned"

\* C17 as amended: against that upstream a traversal with an integer limit
\* does return: `len(feeds) < limit` ends the loop as soon as limit entries
\* have accumulated, after at most limit page requests.
C17_ReturnsWithinLimit ==
    /\ \A c \in Calls : (pc[c] = "await_page") ~> (pc[c] = "returned")
    /\ [](\A c \in Calls :
             (op[c] = "feeds" /\ Len(resps[c]) >= 2) =>
                 /\ Len(PageReqs(c)) <= limit[c]
                 /\ pc[c] = "returned" <=> Len(feeds[c]) >= limit[c]
                 /\ pc[c] = "returned" => result[c] = feeds[c])

C17_Witness ==
    \E c \in Calls :
        /\ op[c] = "feeds" /\ pc[c] = "returned"
        /\ limit[c] = MaxLimit
        /\ Len(PageResps(c)) = MaxLimit
        /\ \A i \in 1..Len(PageResps(c)) :
               CardsOf(PageResps(c)[i]) # <<>> /\ CursorOf(PageResps(c)[i]) = EchoCursor
        /\ Len(result[c]) = MaxLimit

\* A call waits on a request.
Awaiting(c) == pc[c] \in {"await_profile", "await_search", "await_container", "await_page"}

\* C12: every call has a client of its own, open from the start of the call
\* for as long as the call waits on a request and closed once the call has
\* left, by a return, a handled failure or a propagating exception alike; a
\* request is issued only on the open client of the call that issues it.
C12_SessionScopedToCall ==
    /\ [](\A c \in Calls :
             /\ pc[c] = "idle" <=> client[c] = "none"
             /\ Awaiting(c) <=> client[c] = "open"
             /\ pc[c] \in {"returned", "raised"} <=> client[c] = "closed")
    /\ [][\A c \in Calls :
             (reqs'[c] # reqs[c] /\ reqs'[c] # <<>>) =>
                 /\ client'[c] = "open"
                 /\ Awaiting(c)'
                 /\ \A d \in Calls \ {c} : reqs'[d] = reqs[d] /\ client'[d] = client[d]]_vars

C12_Witness ==
    \E c \in Calls :
        /\ pc[c] = "raised" /\ client[c] = "closed"
        /\ op[c] = "feeds" /\ Len(reqs[c]) >= 2

\* extract_weibo_feeds(u, lim) run on its own against Upstream, from the loop
\* head with the locals fs, sid, cid and the requests rq made so far: the
\* exception that leaves it, the value it returns and the requests it makes.
RECURSIVE AloneFrom(_, _, _, _, _, _)
AloneFrom(u, lim, cid, fs, sid, rq) ==
    IF ~WhileCond(fs, lim) THEN [exc |-> "none", val |-> fs, reqs |-> rq]
    ELSE LET req == FeedsRequest(u, cid, sid)
             out == _extract_feeds(Upstream(req))
             rq2 == Append(rq, req)
         IN  IF out.exc # "none" THEN [exc |-> out.exc, val |-> out.val, reqs |-> rq2]
             ELSE IF NoFeeds(out.val) THEN [exc |-> "none", val |-> fs, reqs |-> rq2]
             ELSE LET fs2 == Extend(fs, out.val.Feeds) IN
                  IF Falsy(out.val.SinceId) THEN [exc |-> "none", val |-> fs2, reqs |-> rq2]
                  ELSE AloneFrom(u, lim, cid, fs2, out.val.SinceId, rq2)

Alone(u, lim) ==
    LET req == ProfileRequest(u)
        out == _get_container_id(Upstream(req))
    IN  IF out.exc # "none" THEN [exc |-> out.exc, val |-> out.val, reqs |-> <<req>>]
        ELSE AloneFrom(u, lim, out.val, <<>>, "", <<req>>)

IsPrefix(s, t) == Len(s) <= Len(t) /\ SubSeq(t, 1, Len(s)) = s
Elems(s) == {s[i] : i \in 1..Len(s)}
\* the entries and the cursors of user u's feed
EntriesOf(u) == UNION {Elems(CardsOf(FeedOf(u)[i])) : i \in 1..Len(FeedOf(u))}
Other(c) == CHOOSE d \in Calls : d # c

\* C18: two traversals for different users on the shared crawler, interleaved
\* at their request points: each call makes the requests, and ends with the
\* entries in the order, or the exception, of the same call run alone, and
\* holds no entry, cursor or container id of the other call's user.
C18_ConcurrentCallsIndependent ==
    \A c \in Calls :
        (op[c] = "feeds" /\ op[Other(c)] = "feeds" /\ uid[c] # uid[Other(c)]) =>
            LET alone == Alone(uid[c], limit[c]) IN
            /\ IsPrefix(reqs[c], alone.reqs)
            /\ Finished(c) =>
                   /\ reqs[c] = alone.reqs
                   /\ exc[c] = alone.exc
                   /\ result[c] = alone.val
            /\ Elems(feeds[c]) \cap EntriesOf(uid[Other(c)]) = {}
            /\ sinceId[c] \notin Elems(CursorsOf(uid[Other(c)])) \ {""}
            /\ containerId[c] # ContainerOf(uid[Other(c)])
            /\ \A i \in 1..Len(reqs[c]) : reqs[c][i].uid = uid[c]

C18_Witness ==
    /\ \A c \in Calls : op[c] = "feeds" /\ limit[c] = MaxLimit
    /\ uid["a"] = "u1" /\ uid["b"] = "u2"
    /\ pc["a"] = "returned" /\ Len(result["a"]) >= 3 /\ Len(reqs["a"]) >= 3
    /\ pc["b"] = "await_page" /\ Len(resps["b"]) = 2 /\ feeds["b"] # <<>>
====
